---- MODULE Spec2Model ----
(***************************************************************************)
(* State-machine model of the Instagram downloader edge function           *)
(* (supabase/functions/instagram-downloader/index.ts) and of the client    *)
(* hook useInstagramMedia (hooks/useInstagramMedia.ts).                    *)
(*                                                                         *)
(* JavaScript strings are modelled as sequences of atoms (an atom stands   *)
(* for a run of characters that the code never looks inside, such as the   *)
(* word "Bearer" or one token).  The JavaScript values null and undefined  *)
(* are the one-atom sequences `null' and `undefined', which no input       *)
(* string equals.                                                          *)
(***************************************************************************)
EXTENDS Integers, Sequences, FiniteSets, TLC

VARIABLES
    ALLOWED_ORIGINS,          \* index.ts:92  list of allowed origins
    REQUIRED_API_KEY,         \* index.ts:93  configured key, or undefined
    RATE_LIMIT_MAX_REQUESTS,  \* index.ts:96
    rateLimiterStore,         \* index.ts:100 Map: key -> {count, resetTime}
    now,                      \* Date.now(), in milliseconds
    inflight,                 \* handler invocations suspended at an await
    arrivals,                 \* number of requests received so far
    last,                     \* the handler step taken last (observation)
    windowLog,                \* per key: what the limiter did in the current window
    state,                    \* useInstagramMedia.ts:10  FetchState of the hook
    recentDownloads,          \* useInstagramMedia.ts:20  most recent first
    pending,                  \* service calls of fetchMedia not yet settled
    call                      \* the hook call made last (observation)

vars == << ALLOWED_ORIGINS, REQUIRED_API_KEY, RATE_LIMIT_MAX_REQUESTS,
           rateLimiterStore, now, inflight, arrivals, last, windowLog,
           state, recentDownloads, pending, call >>

config == << ALLOWED_ORIGINS, REQUIRED_API_KEY, RATE_LIMIT_MAX_REQUESTS >>

\* The variables of the edge function and those of the hook.
server == << config, rateLimiterStore, now, inflight, arrivals, last, windowLog >>
hook == << state, recentDownloads, pending, call >>

-----------------------------------------------------------------------------
(* Bounds of the model *)

MaxRequests == 2        \* requests received in one run of Spec
MaxRateRequests == 3    \* requests received in one run of SpecRate
MaxInFlight == 1        \* handler invocations suspended at once in Spec
MaxRateInFlight == 2    \* handler invocations suspended at once in SpecRate
MaxLegacyRequests == 2  \* requests received in one run of SpecLegacy
MaxTicks == 2           \* clock steps in one run
MaxLimit == 2           \* largest configured RATE_LIMIT_MAX_REQUESTS
MaxUrlRequests == 1     \* requests received in one run of SpecUrl
MaxLiveRequests == 3    \* requests received in one run of SpecLive
MaxLiveInFlight == 2    \* handler invocations suspended at once in SpecLive
MaxIdentityRequests == 2 \* requests received in one run of SpecIdentity
MaxRecentUrls == 6      \* distinct media urls downloaded in SpecRecent
MaxPending == 2         \* service calls of the hook in flight at once

-----------------------------------------------------------------------------
(* JavaScript values *)

null == << "null" >>
undefined == << "undefined" >>

\* JavaScript truthiness of a string-or-null value: null, undefined and the
\* empty string are falsy.
Truthy(v) == v # null /\ v # undefined /\ v # << >>

\* a || b
Or(a, b) == IF Truthy(a) THEN a ELSE b

\* Array.prototype.includes
includes(list, x) == \E i \in 1..Len(list) : list[i] = x

\* String.prototype.startsWith
startsWith(s, prefix) ==
    /\ Len(s) >= Len(prefix)
    /\ SubSeq(s, 1, Len(prefix)) = prefix

\* String.prototype.split(' '): the parts between the spaces, in order.
RECURSIVE split(_)
split(s) ==
    IF \A i \in 1..Len(s) : s[i] # " "
    THEN << s >>
    ELSE LET i == CHOOSE j \in 1..Len(s) :
                      s[j] = " " /\ \A m \in 1..(j - 1) : s[m] # " "
         IN  << SubSeq(s, 1, i - 1) >> \o split(SubSeq(s, i + 1, Len(s)))

\* parts[1] of a JavaScript array (index 1 is the second element).
At1(parts) == IF Len(parts) >= 2 THEN parts[2] ELSE undefined

-----------------------------------------------------------------------------
(* Responses *)

\* new Response(body, {status, headers}).  `body' is the JSON value whose text
\* is sent; NoBody is the null body.
NoBody == [empty |-> TRUE]
Response(body, status, headers) ==
    [status |-> status, headers |-> headers, body |-> body]

\* The value of `last.response' for a step that suspended without answering.
NoResponse == [status |-> 0, headers |-> << >>, body |-> NoBody]

\* setCorsHeaders reflecting every origin without consulting the allow-list.
setCorsHeadersReflect(requestOrigin) ==
    LET base == ("Access-Control-Allow-Methods" :> << "GET, POST, OPTIONS" >>)
             @@ ("Access-Control-Allow-Headers" :> << "Content-Type, Authorization" >>)
    IN  IF Truthy(requestOrigin)
        THEN ("Access-Control-Allow-Origin" :> requestOrigin) @@ base
        ELSE base

\* index.ts:103-117
setCorsHeaders(requestOrigin) ==
    LET base == ("Access-Control-Allow-Methods" :> << "GET, POST, OPTIONS" >>)
             @@ ("Access-Control-Allow-Headers" :> << "Content-Type, Authorization" >>)
    IN  IF Truthy(requestOrigin) /\ includes(ALLOWED_ORIGINS, << "*" >>)
        THEN ("Access-Control-Allow-Origin" :> << "*" >>) @@ base
        ELSE IF Truthy(requestOrigin) /\ includes(ALLOWED_ORIGINS, requestOrigin)
        THEN ("Access-Control-Allow-Origin" :> requestOrigin) @@ base
        ELSE base

\* index.ts:127-135
jsonResponse(data, status, requestOrigin) ==
    Response(data, status,
             ("Content-Type" :> << "application/json" >>) @@ setCorsHeaders(requestOrigin))

\* The error envelopes the handler builds inline.
Failure(error, errorCode) ==
    [success |-> FALSE, error |-> error, errorCode |-> errorCode]

-----------------------------------------------------------------------------
(* Rate limiter, index.ts:234-253 *)

MsPerSecond == 1000
RATE_LIMIT_WINDOW_SECONDS == 1

\* OpensWindow with >= for >: the window ends one millisecond early.
OpensWindowAtReset(store, key, t) ==
    key \notin DOMAIN store \/ t >= store[key].resetTime

\* Whether the request opens a window (index.ts:238).
OpensWindow(store, key, t) ==
    key \notin DOMAIN store \/ t > store[key].resetTime

\* MapSet replacing the whole Map by the one entry.
MapSetAlone(store, key, entry) == [k \in {key} |-> entry]

\* Map.prototype.set
MapSet(store, key, entry) ==
    [k \in DOMAIN store \cup {key} |-> IF k = key THEN entry ELSE store[k]]

\* EntryAfter with the increment lost: the count read is written back as if
\* another invocation had run between the read and the write.
EntryAfterLostUpdate(store, key, t) ==
    IF key \notin DOMAIN store \/ t > store[key].resetTime
    THEN [count |-> 1, resetTime |-> t + RATE_LIMIT_WINDOW_SECONDS * MsPerSecond]
    ELSE store[key]

\* The entry after the request (index.ts:240, 243).  entry.count++ acts on the
\* object the Map holds, so the stored entry changes on rejection too.
EntryAfter(store, key, t) ==
    IF OpensWindow(store, key, t)
    THEN [count |-> 1, resetTime |-> t + RATE_LIMIT_WINDOW_SECONDS * MsPerSecond]
    ELSE [store[key] EXCEPT !.count = @ + 1]

\* StoreAfter with the entry copied out of the Map: a rejected request's
\* increment is not stored.
StoreAfterCopy(store, key, t) ==
    IF key \in DOMAIN store /\ t <= store[key].resetTime
          /\ store[key].count + 1 > RATE_LIMIT_MAX_REQUESTS
    THEN store
    ELSE MapSet(store, key, EntryAfter(store, key, t))

\* The Map after the limiter ran (index.ts:241, 243, 252): the entry object is
\* shared with the Map, so the increment is stored on rejection as well.
StoreAfter(store, key, t) == MapSet(store, key, EntryAfter(store, key, t))

\* Limited with the comparison off by one (>= for >).
LimitedAtMax(store, key, t) ==
    /\ key \in DOMAIN store /\ t <= store[key].resetTime
    /\ store[key].count + 1 >= RATE_LIMIT_MAX_REQUESTS

\* index.ts:244
Limited(store, key, t) ==
    /\ ~OpensWindow(store, key, t)
    /\ EntryAfter(store, key, t).count > RATE_LIMIT_MAX_REQUESTS

-----------------------------------------------------------------------------
(* The synchronous part of the serve handler, index.ts:189-254: everything  *)
(* up to the first await.  Gate(req, store, t) gives the terminal response  *)
(* (or NoResponse when the request goes on to read its body), the store     *)
(* after the step, the rate-limit key used and the stages that ran.         *)

\* index.ts:191
ClientIp(req) ==
    Or(Or(Or(req.XForwardedFor, req.XRealIP), req.CFConnectingIP), << "unknown-ip" >>)

\* OriginBlocked with the allow-list never enforced by a rejection.
OriginBlockedNever(requestOrigin) == FALSE

\* index.ts:202
OriginBlocked(requestOrigin) ==
    /\ Truthy(requestOrigin)
    /\ ~includes(ALLOWED_ORIGINS, << "*" >>)
    /\ ~includes(ALLOWED_ORIGINS, requestOrigin)

\* AuthMissing without the test of the "Bearer " prefix.
AuthMissingAbsentOnly(authHeader) == ~Truthy(authHeader)

\* index.ts:213
AuthMissing(authHeader) ==
    ~Truthy(authHeader) \/ ~startsWith(authHeader, << "Bearer", " " >>)

\* index.ts:222
Token(authHeader) == At1(split(authHeader))

\* index.ts:223
KeyRejected(token) ==
    Truthy(REQUIRED_API_KEY) /\ token # REQUIRED_API_KEY

\* RateLimitKey with the operands of || exchanged: clientIp || token.
RateLimitKeyByAddress(req) == Or(ClientIp(req), Token(req.Authorization))

\* index.ts:234
RateLimitKey(req) == Or(Token(req.Authorization), ClientIp(req))

\* IsPreflight with a pre-flight that carries credentials handled like an
\* actual request.
IsPreflightWithoutCredentials(req) ==
    req.method = "OPTIONS" /\ ~Truthy(req.Authorization)

\* index.ts:196
IsPreflight(req) == req.method = "OPTIONS"

Gate(req, store, t) ==
    LET requestOrigin == req.Origin
        Out(resp, st, key, trace) ==
            [response |-> resp, store |-> st, key |-> key, trace |-> trace]
    IN
    IF IsPreflight(req)
    THEN Out(Response(NoBody, 200, setCorsHeaders(requestOrigin)),
             store, null, << "preflight" >>)
    ELSE IF OriginBlocked(requestOrigin)
    THEN Out(jsonResponse(Failure("Unauthorized origin.", "UNAUTHORIZED_ORIGIN"),
                          403, requestOrigin),
             store, null, << "origin" >>)
    ELSE IF AuthMissing(req.Authorization)
    THEN Out(jsonResponse(Failure("Authentication required. Please provide a valid Bearer token.",
                                  "AUTH_REQUIRED"),
                          401, requestOrigin),
             store, null, << "origin", "auth" >>)
    ELSE IF KeyRejected(Token(req.Authorization))
    THEN Out(jsonResponse(Failure("Invalid API key.", "INVALID_API_KEY"),
                          401, requestOrigin),
             store, null, << "origin", "auth" >>)
    ELSE LET key == RateLimitKey(req)
             after == StoreAfter(store, key, t)
         IN  IF Limited(store, key, t)
             THEN Out(jsonResponse(Failure("Too many requests. Please try again later.",
                                           "RATE_LIMITED"),
                                   429, requestOrigin),
                      after, key, << "origin", "auth", "rate" >>)
             ELSE Out(NoResponse, after, key, << "origin", "auth", "rate" >>)

-----------------------------------------------------------------------------
(* URL validation, index.ts:270.  A url is a sequence of atoms; the atoms   *)
(* of IdAtoms consist of characters of [a-zA-Z0-9_-] only.                  *)

IdAtoms == {"p", "reel", "tv", "stories", "ABC123", "a_b-c"}

\* isValidInstagramUrl with the scheme made optional: (?:https?:\/\/)?
isValidInstagramUrlSchemeOptional(url) ==
    LET s == IF Len(url) >= 1 /\ url[1] \in {"https://", "http://"} THEN 2 ELSE 1
        h == IF Len(url) >= s /\ url[s] = "www." THEN s + 1 ELSE s
    IN  /\ Len(url) >= h + 3
        /\ url[h] = "instagram.com/"
        /\ url[h + 1] \in {"p", "reel", "tv"}
        /\ url[h + 2] = "/"
        /\ url[h + 3] \in IdAtoms
        /\ \A i \in (h + 4)..Len(url) : url[i] # "\n"

\* /^(https?:\/\/(?:www\.)?instagram\.com\/(?:p|reel|tv)\/[a-zA-Z0-9_-]+\/?.*)$/.test(url)
isValidInstagramUrl(url) ==
    /\ Len(url) >= 1
    /\ url[1] \in {"https://", "http://"}
    /\ LET h == IF Len(url) >= 2 /\ url[2] = "www." THEN 3 ELSE 2
       IN  /\ Len(url) >= h + 3
           /\ url[h] = "instagram.com/"
           /\ url[h + 1] \in {"p", "reel", "tv"}
           /\ url[h + 2] = "/"
           /\ url[h + 3] \in IdAtoms
           /\ \A i \in (h + 4)..Len(url) : url[i] # "\n"

-----------------------------------------------------------------------------
(* fetchInstagramMedia, index.ts:138-186.  The upstream answer is           *)
(*   [fetch |-> "ok" | "reject",   the fetch() promise                      *)
(*    json  |-> "ok" | "reject",   the response.json() promise              *)
(*    result |-> the parsed JSON value]                                     *)
(* and a parsed value is [isNull, status, hasData, hasMedias, medias,       *)
(* type, thumbnail], where status is the truthiness of result.status and    *)
(* each media is [isNull, quality, url, formattedSize].                     *)

\* Property access on null throws a TypeError: result.status at index.ts:154,
\* media.quality at index.ts:164.
Throws(result) ==
    \/ result.isNull
    \/ /\ result.status /\ result.hasData /\ result.hasMedias
       /\ \E i \in 1..Len(result.medias) : result.medias[i].isNull

\* index.ts:154
NoMedia(result) ==
    \/ ~result.status
    \/ ~result.hasData
    \/ ~result.hasMedias
    \/ Len(result.medias) = 0

\* index.ts:163-167
mediaList(result) ==
    [i \in 1..Len(result.medias) |->
        [quality |-> Or(result.medias[i].quality, << "default" >>),
         url |-> result.medias[i].url,
         size |-> Or(result.medias[i].formattedSize, << "unknown" >>)]]

FetchFailed ==
    [success |-> FALSE,
     error |-> "Failed to fetch Instagram media. The external service might be unavailable or the URL is not supported.",
     errorCode |-> "FETCH_FAILED"]

\* index.ts:151-185: what fetchInstagramMedia returns once response.json()
\* has resolved to `result'.
Normalize(result, url) ==
    IF Throws(result)
    THEN FetchFailed
    ELSE IF NoMedia(result)
    THEN [success |-> FALSE,
          error |-> "No media found or invalid Instagram URL. Please check the URL and try again.",
          errorCode |-> "NO_MEDIA_FOUND"]
    ELSE [success |-> TRUE,
          data |-> [type |-> Or(result.type, << "post" >>),
                    originalUrl |-> url,
                    thumbnail |-> result.thumbnail,
                    downloadOptions |-> mediaList(result)]]

\* index.ts:281
StatusOf(result) ==
    IF result.success THEN 200
    ELSE IF result.errorCode = "NO_MEDIA_FOUND" THEN 404 ELSE 500

-----------------------------------------------------------------------------
(* The request body, index.ts:259-278.  A body is                           *)
(*   [kind |-> "invalid" (req.json() rejects) | "null" (the JSON value      *)
(*            null) | "object", url |-> the url property or undefined]      *)

\* index.ts:259: req.json() rejects, or destructuring null throws.
BodyThrows(body) == body.kind \in {"invalid", "null"}

\* BodyStage with the pattern tested before the presence of the url.
BodyStagePatternFirst(body, requestOrigin) ==
    IF BodyThrows(body)
    THEN [response |-> jsonResponse(Failure("Invalid request body or internal server error.",
                                            "INTERNAL_ERROR"),
                                    500, requestOrigin),
          trace |-> << "body" >>]
    ELSE IF ~isValidInstagramUrl(body.url)
    THEN [response |-> jsonResponse(Failure("Please enter a valid Instagram post, reel, or IGTV URL (e.g., https://www.instagram.com/p/...).",
                                            "INVALID_INSTAGRAM_URL"),
                                    400, requestOrigin),
          trace |-> << "body", "pattern" >>]
    ELSE IF ~Truthy(body.url)
    THEN [response |-> jsonResponse(Failure("URL is required in the request body.",
                                            "URL_REQUIRED"),
                                    400, requestOrigin),
          trace |-> << "body", "pattern", "url" >>]
    ELSE [response |-> NoResponse,
          trace |-> << "body", "pattern", "url", "upstream" >>]

\* index.ts:261-280: the response of the body step (NoResponse when the url
\* goes upstream) and the stages it ran.
BodyStage(body, requestOrigin) ==
    IF BodyThrows(body)
    THEN [response |-> jsonResponse(Failure("Invalid request body or internal server error.",
                                            "INTERNAL_ERROR"),
                                    500, requestOrigin),
          trace |-> << "body" >>]
    ELSE IF ~Truthy(body.url)
    THEN [response |-> jsonResponse(Failure("URL is required in the request body.",
                                            "URL_REQUIRED"),
                                    400, requestOrigin),
          trace |-> << "body", "url" >>]
    ELSE IF ~isValidInstagramUrl(body.url)
    THEN [response |-> jsonResponse(Failure("Please enter a valid Instagram post, reel, or IGTV URL (e.g., https://www.instagram.com/p/...).",
                                            "INVALID_INSTAGRAM_URL"),
                                    400, requestOrigin),
          trace |-> << "body", "url", "pattern" >>]
    ELSE [response |-> NoResponse,
          trace |-> << "body", "url", "pattern", "upstream" >>]

-----------------------------------------------------------------------------
(* Inputs *)

NoRequest ==
    [method |-> "", Origin |-> null, Authorization |-> null,
     XForwardedFor |-> null, XRealIP |-> null, CFConnectingIP |-> null]
NoInput == [kind |-> "none"]

Origins == {null, << "https://app.example" >>, << "https://evil.example" >>}

\* The value Headers.get gives for an Origin header sent with an empty value.
EmptyOrigin == << >>

\* Header values as Headers.get returns them: no leading or trailing space.
AuthHeaders ==
    { null,
      << "Basic", " ", "k" >>,
      << "Bearer", " ", "k" >>,
      << "Bearer", " ", "x" >>,
      << "Bearer", " ", "k", " ", "x" >>,
      << "Bearer", " ", " ", "k" >> }

Request(m, o, a, xff, xri, cf) ==
    [method |-> m, Origin |-> o, Authorization |-> a,
     XForwardedFor |-> xff, XRealIP |-> xri, CFConnectingIP |-> cf]

\* The requests of Spec: every origin with every Authorization header; the
\* forwarding headers vary where the handler reads them for more than its
\* log line (an empty token, index.ts:234); pre-flights with and without
\* credentials; an Origin header with an empty value.
Requests ==
    { Request("POST", o, a, null, null, null) : o \in Origins, a \in AuthHeaders }
    \cup { Request("POST", null, << "Bearer", " ", " ", "k" >>,
                   << "10.0.0.1" >>, << "10.0.0.2" >>, null),
           Request("POST", null, << "Bearer", " ", " ", "k" >>,
                   null, << "10.0.0.2" >>, null) }
    \cup { Request("OPTIONS", o, a, null, null, null) :
             o \in Origins, a \in {null, << "Bearer", " ", "k" >>} }
    \cup { Request("POST", EmptyOrigin, null, null, null, null),
           Request("OPTIONS", EmptyOrigin, null, null, null, null) }

\* The requests of SpecRate: two identities, past the origin and auth gates.
RateRequests ==
    { r \in Requests :
        /\ r.method = "POST" /\ r.Origin = null /\ r.XForwardedFor = null
        /\ r.Authorization \in {<< "Bearer", " ", "k" >>, << "Bearer", " ", "x" >>} }

GoodUrl == << "https://", "www.", "instagram.com/", "p", "/", "ABC123", "/" >>

Bodies ==
    { [kind |-> "invalid", url |-> undefined],
      [kind |-> "null", url |-> undefined],
      [kind |-> "object", url |-> undefined],
      [kind |-> "object", url |-> << "www.", "instagram.com/", "p", "/", "ABC123" >>],
      [kind |-> "object", url |-> GoodUrl] }

Media(isNull, quality, url, size) ==
    [isNull |-> isNull, quality |-> quality, url |-> url, formattedSize |-> size]

JsonValue(isNull, status, hasData, hasMedias, medias) ==
    [isNull |-> isNull, status |-> status, hasData |-> hasData,
     hasMedias |-> hasMedias, medias |-> medias,
     type |-> undefined, thumbnail |-> undefined]

Hd == Media(FALSE, << "hd" >>, << "x.mp4" >>, << "2MB" >>)
Bare == Media(FALSE, undefined, << "y.jpg" >>, undefined)
NullMedia == Media(TRUE, undefined, undefined, undefined)
Blank == Media(FALSE, << >>, << "z.mp4" >>, << >>)

\* What response.json() can resolve to.
JsonValues ==
    { JsonValue(TRUE, FALSE, FALSE, FALSE, << >>),
      JsonValue(FALSE, FALSE, FALSE, FALSE, << >>),
      JsonValue(FALSE, TRUE, FALSE, FALSE, << >>),
      JsonValue(FALSE, TRUE, TRUE, FALSE, << >>),
      JsonValue(FALSE, TRUE, TRUE, TRUE, << >>),
      JsonValue(FALSE, FALSE, TRUE, TRUE, << Hd >>),
      JsonValue(FALSE, TRUE, TRUE, TRUE, << Hd >>),
      JsonValue(FALSE, TRUE, TRUE, TRUE, << Hd, Bare >>),
      JsonValue(FALSE, TRUE, TRUE, TRUE, << Hd, NullMedia >>),
      JsonValue(FALSE, TRUE, TRUE, TRUE, << Blank >>) }

\* The url values of SpecUrl: every combination of a leading text, a scheme,
\* "www.", a host, a path segment, a slash, an identifier and a suffix, each
\* of them possibly missing or wrong.
Urls ==
    { pre \o scheme \o www \o host \o seg \o slash \o id \o suffix :
        pre \in {<< >>, << " " >>},
        scheme \in {<< >>, << "https://" >>, << "http://" >>, << "ftp://" >>},
        www \in {<< >>, << "www." >>},
        host \in {<< "instagram.com/" >>, << "evil.com/" >>},
        seg \in {<< >>, << "p" >>, << "reel" >>, << "tv" >>, << "stories" >>},
        slash \in {<< >>, << "/" >>},
        id \in {<< >>, << "ABC123" >>, << "a_b-c" >>, << "$" >>},
        suffix \in {<< >>, << "/" >>, << "/", "?x=1" >>, << "$" >>,
                    << "\n" >>, << "/", "\n" >>} }

\* The bodies of SpecUrl: a JSON object with a url string (the empty string
\* included) or without a url.
UrlBodies ==
    { [kind |-> "object", url |-> u] : u \in Urls \cup {<< >>, undefined} }

\* The requests of SpecUrl: one identity, past the origin and auth gates.
UrlRequests == { Request("POST", null, << "Bearer", " ", "k" >>, null, null, null) }

\* The requests and bodies of SpecLive: a request that goes on to its body, one
\* answered by the auth gate, a pre-flight; a body that cannot be parsed, one
\* without url, one with a url that goes upstream.
LiveRequests ==
    { Request("POST", null, << "Bearer", " ", "k" >>, null, null, null),
      Request("POST", null, null, null, null, null),
      Request("OPTIONS", null, null, null, null, null) }
LiveBodies ==
    {b \in Bodies : b.kind = "invalid" \/ b.url \in {undefined, GoodUrl}}

\* The requests of SpecIdentity: one token sent from two addresses, another
\* token, and an empty token ("Bearer" followed by two spaces) with each
\* forwarding header as the first one present, and with none.
IdentityRequests ==
    { Request("POST", null, << "Bearer", " ", "k" >>, << "10.0.0.1" >>, null, null),
      Request("POST", null, << "Bearer", " ", "k" >>, << "10.0.0.2" >>, null, null),
      Request("POST", null, << "Bearer", " ", "x" >>, << "10.0.0.1" >>, null, null),
      Request("POST", null, << "Bearer", " ", " ", "k" >>,
              << "10.0.0.1" >>, << "10.0.0.2" >>, null),
      Request("POST", null, << "Bearer", " ", " ", "k" >>, null, << "10.0.0.2" >>, null),
      Request("POST", null, << "Bearer", " ", " ", "k" >>, null, null, << "10.0.0.3" >>),
      Request("POST", null, << "Bearer", " ", " ", "k" >>, null, null, null) }

\* The bodies and upstream answers of SpecRate.
RateBodies == {b \in Bodies : b.kind = "object" /\ Truthy(b.url)}
RateJsonValues ==
    { JsonValue(FALSE, FALSE, FALSE, FALSE, << >>),
      JsonValue(FALSE, TRUE, TRUE, TRUE, << Hd >>) }

Upstream(fetch, json, result) == [kind |-> "upstream", fetch |-> fetch, json |-> json, result |-> result]
NoResult == JsonValue(TRUE, FALSE, FALSE, FALSE, << >>)

-----------------------------------------------------------------------------
(* The client hook useInstagramMedia, useInstagramMedia.ts:9-154.           *)
(* A FetchState is [isLoading, error, errorCode, media]; error and          *)
(* errorCode are strings or null, media is an InstagramMediaType or         *)
(* NoneFetched (the value null).                                            *)

MAX_RECENT_DOWNLOADS == 5

NoneFetched == [isNull |-> TRUE]

\* useInstagramMedia.ts:12-17: the state of the first render.  fetchMedia is
\* memoised with an empty dependency list (line 82), so the `state' it
\* closes over is this value for the whole life of the hook.
firstRenderState ==
    [isLoading |-> FALSE, error |-> null, errorCode |-> null, media |-> NoneFetched]

\* String.prototype.trim on a sequence of atoms (" " is the whitespace atom).
RECURSIVE trim(_)
trim(s) ==
    IF s = << >> THEN s
    ELSE IF Head(s) = " " THEN trim(Tail(s))
    ELSE IF s[Len(s)] = " " THEN trim(SubSeq(s, 1, Len(s) - 1))
    ELSE s

\* Array.prototype.slice(0, n)
slice(list, n) == SubSeq(list, 1, IF Len(list) < n THEN Len(list) ELSE n)

\* AddRecent without the test for a url already in the list.
AddRecentNoDedupe(prev, media) ==
    slice(<< media >> \o prev, MAX_RECENT_DOWNLOADS)

\* AddRecent keeping the oldest entries: the new media goes to the back.
AddRecentAtBack(prev, media) ==
    IF \E i \in 1..Len(prev) : prev[i].url = media.url
    THEN prev
    ELSE slice(prev \o << media >>, MAX_RECENT_DOWNLOADS)

\* useInstagramMedia.ts:110-116: the updater passed to setRecentDownloads.
AddRecent(prev, media) ==
    IF \E i \in 1..Len(prev) : prev[i].url = media.url
    THEN prev
    ELSE slice(<< media >> \o prev, MAX_RECENT_DOWNLOADS)

\* An InstagramMediaType (useInstagramMedia.ts:163-168) with one download
\* option per quality of `qualities'.
MediaType(url, thumbnail, qualities) ==
    [type |-> << "post" >>, url |-> url, thumbnail |-> thumbnail,
     downloadOptions |->
        [i \in 1..Len(qualities) |->
            [quality |-> qualities[i],
             url |-> << "cdn/", qualities[i], ".mp4" >>,
             size |-> << "2MB" >>]]]

\* The media with the n-th url: every one has a "high" option, the even ones
\* a "low" option as well.
MediaOf(n) ==
    MediaType(<< "https://www.instagram.com/p/", ToString(n) >>, << "t.jpg" >>,
              IF n % 2 = 0 THEN << "high", "low" >> ELSE << "high" >>)

\* The first media fetched again: the same url with another thumbnail.
Refetched == [MediaOf(1) EXCEPT !.thumbnail = << "t2.jpg" >>]

Qualities == {"high", "low"}

\* The medias passed to downloadMedia in SpecRecent and in SpecHook.
RecentMedias == {MediaOf(n) : n \in 1..MaxRecentUrls} \cup {Refetched}
HookMedias == {MediaOf(1), MediaOf(2)}

\* The lists localStorage holds at mount: written by the hook itself.
StoredLists == { << >>, [i \in 1..MAX_RECENT_DOWNLOADS |-> MediaOf(i)] }

\* The urls passed to fetchMedia.
HookUrls == { << >>, << " " >>, << " ", " " >>,
             << "https://www.instagram.com/p/", "1" >>,
             << " ", "https://www.instagram.com/p/", "2" >> }

\* How the service call settles: resolved with a media, or rejected with an
\* error that has a message and a code, or neither.
Resolved(media) == [ok |-> TRUE, media |-> media, message |-> undefined, code |-> undefined]
Rejected(message, code) == [ok |-> FALSE, media |-> NoneFetched, message |-> message, code |-> code]
Settlements ==
    { Resolved(m) : m \in HookMedias }
    \cup { Rejected(<< "Too many requests." >>, << "RATE_LIMITED" >>),
           Rejected(undefined, undefined) }

HookCall(op, url, media, quality, outcome) ==
    [op |-> op, url |-> url, media |-> media, quality |-> quality, outcome |-> outcome]

\* useInstagramMedia.ts:10-28: the hook mounts.
HookInit(stored) ==
    /\ state = firstRenderState
    /\ recentDownloads \in stored
    /\ pending = 0
    /\ call = HookCall("mount", undefined, NoneFetched, "", "")

-----------------------------------------------------------------------------
(* State *)

EmptyMap == [k \in {} |-> 0]

Observe(step, id, req, key, input, response, trace, origin) ==
    [step |-> step, id |-> id, req |-> req, key |-> key, input |-> input,
     response |-> response, trace |-> trace, origin |-> origin]

ServerInit(origins, keys, limits) ==
    /\ ALLOWED_ORIGINS \in origins
    /\ REQUIRED_API_KEY \in keys
    /\ RATE_LIMIT_MAX_REQUESTS \in limits
    /\ rateLimiterStore = EmptyMap
    /\ now = 0
    /\ inflight = {}
    /\ arrivals = 0
    /\ last = Observe("init", 0, NoRequest, null, NoInput, NoResponse, << >>, null)
    /\ windowLog = EmptyMap

InitWith(origins, keys, limits) ==
    ServerInit(origins, keys, limits) /\ HookInit({<< >>})

Init ==
    InitWith({<< << "*" >> >>, << << "https://app.example" >> >>},
             {undefined, << "k" >>}, {1})

InitRate ==
    InitWith({<< << "*" >> >>}, {undefined}, 0..MaxLimit)

-----------------------------------------------------------------------------
(* Actions *)

\* The limiter's record of the current window of `key': one entry per request
\* that reached the limiter since the request that opened the window.
LogAfter(key, status, count) ==
    LET entry == [before |-> IF key \in DOMAIN rateLimiterStore
                             THEN rateLimiterStore[key].count ELSE 0,
                  count |-> count, status |-> status]
        opens == \/ key \notin DOMAIN rateLimiterStore
                 \/ now > rateLimiterStore[key].resetTime
    IN  MapSet(windowLog, key,
               IF opens \/ key \notin DOMAIN windowLog
               THEN << entry >> ELSE Append(windowLog[key], entry))

\* serve handler, index.ts:189-259: a request arrives and runs to its first
\* await (req.json()) or to a terminal response.
Receive(reqs, cap, concurrent) ==
    /\ arrivals < cap
    /\ \E req \in reqs :
         LET g == Gate(req, rateLimiterStore, now)
             id == arrivals + 1
             suspended == g.response.status = 0
         IN  /\ suspended => Cardinality(inflight) < concurrent
             /\ rateLimiterStore' = g.store
             /\ inflight' = IF suspended
                            THEN inflight \cup
                                 {[id |-> id, requestOrigin |-> req.Origin, pc |-> "body",
                                   url |-> undefined, trace |-> g.trace]}
                            ELSE inflight
             /\ arrivals' = id
             /\ last' = Observe("serve", id, req, g.key, NoInput, g.response,
                                g.trace, req.Origin)
             /\ windowLog' = IF g.key = null THEN windowLog
                             ELSE LogAfter(g.key, g.response.status,
                                           g.store[g.key].count)
    /\ UNCHANGED << hook, config, now >>

\* index.ts:259-280: req.json() settles; the handler validates the url and
\* either answers or calls fetchInstagramMedia, which suspends at fetch().
ReadBody(bodies) ==
    \E r \in inflight, body \in bodies :
        /\ r.pc = "body"
        /\ LET b == BodyStage(body, r.requestOrigin)
               trace == r.trace \o b.trace
           IN  /\ inflight' = IF b.response.status = 0
                              THEN (inflight \ {r}) \cup
                                   {[r EXCEPT !.pc = "fetch", !.url = body.url,
                                              !.trace = trace]}
                              ELSE inflight \ {r}
               /\ last' = Observe("body", r.id, NoRequest, null,
                                  [kind |-> "body", body |-> body],
                                  b.response, trace, r.requestOrigin)
        /\ UNCHANGED << hook, config, rateLimiterStore, now, arrivals, windowLog >>

\* FetchDone with the rejection of fetch() caught nowhere: the invocation ends
\* without a response.
FetchDoneUncaught ==
    \E r \in inflight, fetch \in {"ok", "reject"} :
        /\ r.pc = "fetch"
        /\ inflight' = IF fetch = "ok"
                       THEN (inflight \ {r}) \cup {[r EXCEPT !.pc = "json"]}
                       ELSE inflight \ {r}
        /\ last' = Observe("fetch", r.id, NoRequest, null,
                           Upstream(fetch, "pending", NoResult),
                           NoResponse, r.trace, r.requestOrigin)
        /\ UNCHANGED << hook, config, rateLimiterStore, now, arrivals, windowLog >>

\* index.ts:141-151, 178-185, 280-284: fetch() settles; a rejection is caught
\* and answered FETCH_FAILED, otherwise the handler suspends at response.json().
FetchDone ==
    \E r \in inflight, fetch \in {"ok", "reject"} :
        /\ r.pc = "fetch"
        /\ inflight' = IF fetch = "ok"
                       THEN (inflight \ {r}) \cup {[r EXCEPT !.pc = "json"]}
                       ELSE inflight \ {r}
        /\ last' = Observe("fetch", r.id, NoRequest, null,
                           Upstream(fetch, "pending", NoResult),
                           IF fetch = "ok" THEN NoResponse
                           ELSE jsonResponse(FetchFailed, StatusOf(FetchFailed),
                                             r.requestOrigin),
                           r.trace, r.requestOrigin)
        /\ UNCHANGED << hook, config, rateLimiterStore, now, arrivals, windowLog >>

\* index.ts:151-185, 280-284: response.json() settles and the handler answers.
JsonDone(values) ==
    \E r \in inflight :
        /\ r.pc = "json"
        /\ \E up \in {Upstream("ok", "reject", NoResult)}
                     \cup {Upstream("ok", "ok", v) : v \in values} :
             LET result == IF up.json = "reject" THEN FetchFailed
                           ELSE Normalize(up.result, r.url)
             IN  last' = Observe("json", r.id, NoRequest, null, up,
                                 jsonResponse(result, StatusOf(result), r.requestOrigin),
                                 r.trace, r.requestOrigin)
        /\ inflight' = inflight \ {r}
        /\ UNCHANGED << hook, config, rateLimiterStore, now, arrivals, windowLog >>

\* Date.now() advances.
Tick ==
    /\ now < MaxTicks * MsPerSecond
    /\ now' = now + MsPerSecond
    /\ UNCHANGED << hook, config, rateLimiterStore, inflight, arrivals, last, windowLog >>

Next ==
    \/ Receive(Requests, MaxRequests, MaxInFlight)
    \/ ReadBody(Bodies)
    \/ FetchDone
    \/ JsonDone(JsonValues)

Spec == Init /\ [][Next]_vars

NextRate ==
    \/ Receive(RateRequests, MaxRateRequests, MaxRateInFlight)
    \/ ReadBody(RateBodies)
    \/ FetchDone
    \/ JsonDone(RateJsonValues)
    \/ Tick

SpecRate == InitRate /\ [][NextRate]_vars

\* The serve handler with every url value in the body, one request at a time.
InitUrl == InitWith({<< << "*" >> >>}, {undefined}, {MaxLimit})

NextUrl ==
    \/ Receive(UrlRequests, MaxUrlRequests, 1)
    \/ ReadBody(UrlBodies)
    \/ FetchDone
    \/ JsonDone(RateJsonValues)

SpecUrl == InitUrl /\ [][NextUrl]_vars

\* The serve handler with and without a configured key, requests of one token
\* from several addresses, one request at a time.
InitIdentity == InitWith({<< << "*" >> >>}, {undefined, << "k" >>}, 0..MaxLimit)

NextIdentity ==
    \/ Receive(IdentityRequests, MaxIdentityRequests, 1)
    \/ ReadBody(RateBodies)
    \/ FetchDone
    \/ JsonDone(RateJsonValues)
    \/ Tick

SpecIdentity == InitIdentity /\ [][NextIdentity]_vars

\* The serve handler with every pending promise eventually settling: the body
\* read, the upstream fetch() and its response.json().
InitLive == InitWith({<< << "*" >> >>}, {undefined}, {1, MaxLimit})

NextLive ==
    \/ Receive(LiveRequests, MaxLiveRequests, MaxLiveInFlight)
    \/ ReadBody(LiveBodies)
    \/ FetchDone
    \/ JsonDone(RateJsonValues)

SpecLive ==
    /\ InitLive /\ [][NextLive]_vars
    /\ WF_vars(ReadBody(LiveBodies))
    /\ WF_vars(FetchDone)
    /\ WF_vars(JsonDone(RateJsonValues))

-----------------------------------------------------------------------------
(* The first variant of the edge function, index.ts:1-87: the Deno.serve    *)
(* handler and its own fetchInstagramMedia.                                 *)

\* index.ts:3-7
corsHeaders ==
    ("Access-Control-Allow-Origin" :> << "*" >>)
    @@ ("Access-Control-Allow-Methods" :> << "GET, POST, OPTIONS" >>)
    @@ ("Access-Control-Allow-Headers" :> << "Content-Type, Authorization" >>)

\* { ...corsHeaders, 'Content-Type': 'application/json' }
legacyJsonHeaders == ("Content-Type" :> << "application/json" >>) @@ corsHeaders

\* index.ts:66: /instagram\.com/.test(url)
legacyIsValidInstagramUrl(url) ==
    \E i \in 1..Len(url) : url[i] = "instagram.com/"

\* index.ts:57-73, 81-86: the response of the body step, or NoResponse when
\* the url goes upstream.
LegacyBodyStage(body) ==
    IF BodyThrows(body)
    THEN Response([error |-> "Unexpected token in JSON"], 500, legacyJsonHeaders)
    ELSE IF ~Truthy(body.url)
    THEN Response([error |-> "URL is required"], 400, legacyJsonHeaders)
    ELSE IF ~legacyIsValidInstagramUrl(body.url)
    THEN Response([error |-> "Please enter a valid Instagram URL"], 400, legacyJsonHeaders)
    ELSE NoResponse

\* index.ts:43-48
LegacyFetchFailed(message) == [success |-> FALSE, error |-> message]

\* index.ts:19-48
LegacyNormalize(result, url) ==
    IF Throws(result)
    THEN LegacyFetchFailed("Cannot read properties of null")
    ELSE IF NoMedia(result)
    THEN [success |-> FALSE, error |-> "No media found or invalid Instagram URL."]
    ELSE [success |-> TRUE,
          data |-> [type |-> Or(result.type, << "post" >>),
                    url |-> url,
                    thumbnail |-> result.thumbnail,
                    downloadOptions |-> mediaList(result)]]

\* index.ts:51-57: a request arrives at the first variant and answers the
\* pre-flight or suspends at req.json().
LegacyReceive ==
    /\ arrivals < MaxLegacyRequests
    /\ \E req \in Requests :
         LET id == arrivals + 1
             preflight == req.method = "OPTIONS"
         IN  /\ ~preflight => Cardinality(inflight) < MaxInFlight
             /\ inflight' = IF preflight THEN inflight
                            ELSE inflight \cup
                                 {[id |-> id, requestOrigin |-> req.Origin,
                                   pc |-> "legacy-body", url |-> undefined,
                                   trace |-> << >>]}
             /\ arrivals' = id
             /\ last' = Observe("legacy-serve", id, req, null, NoInput,
                                IF preflight THEN Response(NoBody, 200, corsHeaders)
                                ELSE NoResponse,
                                << >>, req.Origin)
    /\ UNCHANGED << hook, config, rateLimiterStore, now, windowLog >>

\* index.ts:57-75
LegacyReadBody ==
    \E r \in inflight, body \in Bodies :
        /\ r.pc = "legacy-body"
        /\ LET resp == LegacyBodyStage(body)
           IN  /\ inflight' = IF resp.status = 0
                              THEN (inflight \ {r}) \cup
                                   {[r EXCEPT !.pc = "legacy-fetch", !.url = body.url]}
                              ELSE inflight \ {r}
               /\ last' = Observe("legacy-body", r.id, NoRequest, null,
                                  [kind |-> "body", body |-> body],
                                  resp, << >>, r.requestOrigin)
        /\ UNCHANGED << hook, config, rateLimiterStore, now, arrivals, windowLog >>

\* index.ts:11-19, 43-48, 75-80
LegacyFetchDone ==
    \E r \in inflight, fetch \in {"ok", "reject"} :
        /\ r.pc = "legacy-fetch"
        /\ inflight' = IF fetch = "ok"
                       THEN (inflight \ {r}) \cup {[r EXCEPT !.pc = "legacy-json"]}
                       ELSE inflight \ {r}
        /\ last' = Observe("legacy-fetch", r.id, NoRequest, null,
                           Upstream(fetch, "pending", NoResult),
                           IF fetch = "ok" THEN NoResponse
                           ELSE Response(LegacyFetchFailed("fetch failed"), 200,
                                         legacyJsonHeaders),
                           << >>, r.requestOrigin)
        /\ UNCHANGED << hook, config, rateLimiterStore, now, arrivals, windowLog >>

\* index.ts:19-48, 75-80
LegacyJsonDone ==
    \E r \in inflight :
        /\ r.pc = "legacy-json"
        /\ \E up \in {Upstream("ok", "reject", NoResult)}
                     \cup {Upstream("ok", "ok", v) : v \in JsonValues} :
             LET result == IF up.json = "reject"
                           THEN LegacyFetchFailed("Unexpected token in JSON")
                           ELSE LegacyNormalize(up.result, r.url)
             IN  last' = Observe("legacy-json", r.id, NoRequest, null, up,
                                 Response(result, 200, legacyJsonHeaders),
                                 << >>, r.requestOrigin)
        /\ inflight' = inflight \ {r}
        /\ UNCHANGED << hook, config, rateLimiterStore, now, arrivals, windowLog >>

NextLegacy ==
    \/ LegacyReceive
    \/ LegacyReadBody
    \/ LegacyFetchDone
    \/ LegacyJsonDone

SpecLegacy == Init /\ [][NextLegacy]_vars

-----------------------------------------------------------------------------
(* Actions of the hook *)

\* useInstagramMedia.ts:41-62: fetchMedia up to its await.  A blank url sets
\* the state from the memoised closure's `state' and returns; otherwise the
\* functional update runs and the service call is issued.
fetchMedia(urls) ==
    /\ \E url \in urls :
         IF trim(url) = << >>
         THEN /\ state' = [firstRenderState EXCEPT
                              !.error = << "Please enter a valid Instagram URL." >>,
                              !.errorCode = << "EMPTY_URL_INPUT" >>]
              /\ pending' = pending
              /\ call' = HookCall("fetchMedia", url, NoneFetched, "", "blank")
         ELSE /\ pending < MaxPending
              /\ state' = [state EXCEPT !.isLoading = TRUE, !.error = null,
                                        !.errorCode = null, !.media = NoneFetched]
              /\ pending' = pending + 1
              /\ call' = HookCall("fetchMedia", url, NoneFetched, "", "issued")
    /\ UNCHANGED << recentDownloads, server >>

\* useInstagramMedia.ts:62-81: the service call settles.
FetchSettled(settlements) ==
    /\ pending > 0
    /\ \E res \in settlements :
         /\ state' = IF res.ok
                     THEN [state EXCEPT !.isLoading = FALSE, !.error = null,
                                        !.errorCode = null, !.media = res.media]
                     ELSE [state EXCEPT
                              !.isLoading = FALSE,
                              !.error = Or(res.message, << "Failed to fetch media." >>),
                              !.errorCode = Or(res.code, << "FETCH_UNKNOWN_ERROR" >>),
                              !.media = NoneFetched]
         /\ call' = HookCall("settled", undefined, res.media, "",
                             IF res.ok THEN "resolved" ELSE "rejected")
    /\ pending' = pending - 1
    /\ UNCHANGED << recentDownloads, server >>

\* useInstagramMedia.ts:84-127.  `domThrows' says whether creating and
\* clicking the link throws.
downloadMedia(medias) ==
    /\ \E media \in medias, quality \in Qualities, domThrows \in BOOLEAN :
         LET found == \E i \in 1..Len(media.downloadOptions) :
                          media.downloadOptions[i].quality = quality
         IN  IF ~found
             THEN /\ state' = [state EXCEPT
                                  !.error = << "The ", quality,
                                               " quality option is not available for this media." >>,
                                  !.errorCode = << "DOWNLOAD_OPTION_NOT_FOUND" >>]
                  /\ recentDownloads' = recentDownloads
                  /\ call' = HookCall("downloadMedia", undefined, media, quality, "no-option")
             ELSE IF domThrows
             THEN /\ state' = [state EXCEPT
                                  !.error = << "Failed to initiate download. Please try again." >>,
                                  !.errorCode = << "DOWNLOAD_INITIATION_FAILED" >>]
                  /\ recentDownloads' = recentDownloads
                  /\ call' = HookCall("downloadMedia", undefined, media, quality, "failed")
             ELSE /\ recentDownloads' = AddRecent(recentDownloads, media)
                  /\ state' = [state EXCEPT !.error = null, !.errorCode = null]
                  /\ call' = HookCall("downloadMedia", undefined, media, quality, "downloaded")
    /\ UNCHANGED << pending, server >>

\* useInstagramMedia.ts:129-136
clearError ==
    /\ state' = [state EXCEPT !.error = null, !.errorCode = null]
    /\ call' = HookCall("clearError", undefined, NoneFetched, "", "")
    /\ UNCHANGED << recentDownloads, pending, server >>

\* useInstagramMedia.ts:138-144
clearMedia ==
    /\ state' = [state EXCEPT !.media = NoneFetched]
    /\ call' = HookCall("clearMedia", undefined, NoneFetched, "", "")
    /\ UNCHANGED << recentDownloads, pending, server >>

\* The hook with fetches in flight.
InitHook == ServerInit({<< << "*" >> >>}, {undefined}, {1}) /\ HookInit({<< >>})

NextHook ==
    \/ fetchMedia(HookUrls)
    \/ FetchSettled(Settlements)
    \/ downloadMedia(HookMedias)
    \/ clearError
    \/ clearMedia

SpecHook == InitHook /\ [][NextHook]_vars

\* The hook used for downloads only, over MaxRecentUrls urls.
InitRecent == ServerInit({<< << "*" >> >>}, {undefined}, {1}) /\ HookInit(StoredLists)

NextRecent ==
    \/ downloadMedia(RecentMedias)
    \/ clearError

SpecRecent == InitRecent /\ [][NextRecent]_vars

-----------------------------------------------------------------------------
(* Vocabulary of the properties *)

\* The errorCode of a response's envelope ("" when it has none).
ErrorCodeOf(resp) ==
    IF "errorCode" \in DOMAIN resp.body THEN resp.body.errorCode ELSE ""

\* The step taken last answered the request.
Answered == last.response.status # 0

\* The step taken last was the serve handler receiving a request other than
\* a pre-flight.
Served == last.step = "serve" /\ last.req.method # "OPTIONS"

\* The request's Origin header is present (it has a non-empty value) and not
\* allowed.
OriginDisallowed(req) ==
    /\ req.Origin # null /\ req.Origin # << >>
    /\ \A i \in 1..Len(ALLOWED_ORIGINS) :
           ALLOWED_ORIGINS[i] # << "*" >> /\ ALLOWED_ORIGINS[i] # req.Origin

\* The Authorization header is absent or does not start with "Bearer ".
NoBearer(req) ==
    \/ req.Authorization = null
    \/ Len(req.Authorization) < 2
    \/ req.Authorization[1] # "Bearer"
    \/ req.Authorization[2] # " "

\* Everything after "Bearer " in a header that starts with it.
SuppliedToken(req) == SubSeq(req.Authorization, 3, Len(req.Authorization))

KeyConfigured == REQUIRED_API_KEY # undefined /\ REQUIRED_API_KEY # << >>

\* The stages of the pipeline in their fixed order, and the stage that
\* produces each errorCode.
StageOrder == << "origin", "auth", "rate", "body", "url", "pattern", "upstream" >>

StageOfCode(code) ==
    CASE code = "UNAUTHORIZED_ORIGIN" -> "origin"
      [] code \in {"AUTH_REQUIRED", "INVALID_API_KEY"} -> "auth"
      [] code = "RATE_LIMITED" -> "rate"
      [] code = "INTERNAL_ERROR" -> "body"
      [] code = "URL_REQUIRED" -> "url"
      [] code = "INVALID_INSTAGRAM_URL" -> "pattern"
      [] OTHER -> "upstream"

\* The answer a stage gives when it is the one that fails.
Verdict(status, code) == [status |-> status, errorCode |-> code]
VerdictOf(resp) == Verdict(resp.status, ErrorCodeOf(resp))
Passed == Verdict(0, "")

-----------------------------------------------------------------------------
(* C1 *)

IsPrefix(s, t) == Len(s) <= Len(t) /\ SubSeq(t, 1, Len(s)) = s

\* The identity's entry is in its window and already holds the maximum.
OverLimit(key) ==
    /\ key \in DOMAIN rateLimiterStore
    /\ now <= rateLimiterStore[key].resetTime
    /\ rateLimiterStore[key].count + 1 > RATE_LIMIT_MAX_REQUESTS

\* The verdict of the earliest failing stage among origin, auth and rate.
EarliestGateFailure(req) ==
    IF OriginDisallowed(req) THEN Verdict(403, "UNAUTHORIZED_ORIGIN")
    ELSE IF NoBearer(req) THEN Verdict(401, "AUTH_REQUIRED")
    ELSE IF KeyConfigured /\ Token(req.Authorization) # REQUIRED_API_KEY
    THEN Verdict(401, "INVALID_API_KEY")
    ELSE IF OverLimit(RateLimitKey(req)) THEN Verdict(429, "RATE_LIMITED")
    ELSE Passed

\* The verdict of the earliest failing stage among body parse, url presence
\* and url pattern.
EarliestBodyFailure(body) ==
    IF body.kind # "object" THEN Verdict(500, "INTERNAL_ERROR")
    ELSE IF body.url \in {undefined, null, << >>} THEN Verdict(400, "URL_REQUIRED")
    ELSE IF ~isValidInstagramUrl(body.url) THEN Verdict(400, "INVALID_INSTAGRAM_URL")
    ELSE Passed

\* C1: every request other than a pre-flight is answered by the first stage
\* that fails, in the order origin, auth, rate limiter, body parse, url
\* presence, url pattern, upstream: the answer is the verdict of the earliest
\* failing stage, the stages that ran are the stages up to the answering one,
\* in order, and after the answer the request runs no further stage.
C1_FirstFailingStageAnswers ==
    [][ /\ (arrivals' = arrivals + 1 /\ last'.step = "serve"
                /\ last'.req.method # "OPTIONS")
           => /\ VerdictOf(last'.response) = EarliestGateFailure(last'.req)
              /\ ("rate" \in {last'.trace[i] : i \in 1..Len(last'.trace)}
                     \/ rateLimiterStore' = rateLimiterStore)
        /\ (last'.step = "body" /\ inflight' # inflight)
           => VerdictOf(last'.response) = EarliestBodyFailure(last'.input.body)
        /\ (last'.step \in {"serve", "body", "fetch", "json"} /\ last' # last
                /\ (last'.step = "serve" => last'.req.method # "OPTIONS"))
           => /\ IsPrefix(last'.trace, StageOrder)
              /\ IF last'.response.status # 0
                 THEN /\ last'.trace[Len(last'.trace)]
                             = StageOfCode(ErrorCodeOf(last'.response))
                      /\ \A r \in inflight' : r.id # last'.id
                 ELSE \E r \in inflight' : r.id = last'.id /\ r.trace = last'.trace
      ]_vars

\* A request that fails the origin stage and the auth stage was answered by
\* the origin stage alone.
C1_Witness ==
    /\ Served /\ Answered
    /\ OriginDisallowed(last.req) /\ NoBearer(last.req)
    /\ VerdictOf(last.response) = Verdict(403, "UNAUTHORIZED_ORIGIN")
    /\ last.trace = << "origin" >>

-----------------------------------------------------------------------------
(* C2 *)

Max(a, b) == IF a >= b THEN a ELSE b

\* C2 as stated: in every window of every identity the N-th request to reach
\* the limiter is admitted if and only if N <= RATE_LIMIT_MAX_REQUESTS, and
\* every other one is answered 429.
C2_NthAdmittedIffWithinMax ==
    \A key \in DOMAIN windowLog :
        \A n \in 1..Len(windowLog[key]) :
            /\ windowLog[key][n].status \in {0, 429}
            /\ windowLog[key][n].status = 0 <=> n <= RATE_LIMIT_MAX_REQUESTS

\* C2 amended: the N-th request of a window is admitted if and only if N = 1
\* or N <= RATE_LIMIT_MAX_REQUESTS; every other one is answered 429.
C2_NthAdmittedIffFirstOrWithinMax ==
    \A key \in DOMAIN windowLog :
        \A n \in 1..Len(windowLog[key]) :
            /\ windowLog[key][n].status \in {0, 429}
            /\ windowLog[key][n].status = 0
                   <=> (n = 1 \/ n <= RATE_LIMIT_MAX_REQUESTS)

\* With a maximum of 2, three requests of one identity reached the limiter in
\* one window: the first two went on, the third was answered 429.
C2_Witness ==
    /\ RATE_LIMIT_MAX_REQUESTS = 2
    /\ \E key \in DOMAIN windowLog :
           /\ Len(windowLog[key]) = 3
           /\ windowLog[key][1].status = 0
           /\ windowLog[key][2].status = 0
           /\ windowLog[key][3].status = 429

-----------------------------------------------------------------------------
(* C3 *)

Admitted(log) == {n \in 1..Len(log) : log[n].status = 0}

\* No two requests of one window took the same count (the count each one
\* compares with the maximum and logs, index.ts:244, 254).
DistinctReads ==
    \A key \in DOMAIN windowLog :
        \A m, n \in 1..Len(windowLog[key]) :
            m # n => windowLog[key][m].count # windowLog[key][n].count

\* C3 as stated: with handler invocations overlapping at their suspension
\* points, no two requests of a window read the same count and the number
\* admitted in a window never exceeds RATE_LIMIT_MAX_REQUESTS.
C3_AdmittedNeverExceedsMax ==
    /\ DistinctReads
    /\ \A key \in DOMAIN windowLog :
           Cardinality(Admitted(windowLog[key])) <= RATE_LIMIT_MAX_REQUESTS

\* C3 amended: no two requests of a window read the same count, and the
\* number admitted in a window never exceeds RATE_LIMIT_MAX_REQUESTS, or 1
\* when the maximum is below 1.
C3_AdmittedNeverExceedsMaxOrOne ==
    /\ DistinctReads
    /\ \A key \in DOMAIN windowLog :
           Cardinality(Admitted(windowLog[key])) <= Max(RATE_LIMIT_MAX_REQUESTS, 1)

\* Three requests of one identity reached the limiter while the two admitted
\* ones were still suspended.
C3_Witness ==
    /\ arrivals = 3
    /\ Cardinality(inflight) = 2
    /\ \E key \in DOMAIN windowLog :
           /\ Len(windowLog[key]) = 3
           /\ Cardinality(Admitted(windowLog[key])) = 2
           /\ windowLog[key][3].status = 429

-----------------------------------------------------------------------------
(* C4 *)

\* The serve handler received a request that reached the rate limiter.
ReachedLimiter ==
    arrivals' = arrivals + 1 /\ last'.step = "serve" /\ last'.key # null

\* C4: a request that reaches the limiter when its identity has no entry, or
\* when now exceeds the entry's resetTime, is admitted and sets the entry to
\* count 1 and resetTime now + window; one that arrives at a time not
\* exceeding resetTime (equal included) stays in the old window: resetTime is
\* kept and the count goes up by one.
C4_WindowOpensOnlyAfterReset ==
    [][ ReachedLimiter =>
          LET key == last'.key
          IN  IF key \notin DOMAIN rateLimiterStore
                    \/ now > rateLimiterStore[key].resetTime
              THEN /\ last'.response.status = 0
                   /\ \E r \in inflight' : r.id = last'.id
                   /\ rateLimiterStore'[key]
                          = [count |-> 1,
                             resetTime |-> now + RATE_LIMIT_WINDOW_SECONDS * MsPerSecond]
              ELSE /\ rateLimiterStore'[key].resetTime = rateLimiterStore[key].resetTime
                   /\ rateLimiterStore'[key].count = rateLimiterStore[key].count + 1
      ]_vars

\* With a maximum of 1, an identity whose previous window had counted two
\* requests (one of them rejected) has opened a new window.
C4_Witness ==
    /\ last.step = "serve" /\ last.key # null
    /\ last.response.status = 0
    /\ RATE_LIMIT_MAX_REQUESTS = 1
    /\ windowLog[last.key] = << [before |-> 2, count |-> 1, status |-> 0] >>
    /\ rateLimiterStore[last.key]
           = [count |-> 1, resetTime |-> now + RATE_LIMIT_WINDOW_SECONDS * MsPerSecond]

\* A request arrived exactly at resetTime and stayed in the old window.
C4_WitnessAtReset ==
    /\ last.step = "serve" /\ last.key # null
    /\ now = rateLimiterStore[last.key].resetTime
    /\ rateLimiterStore[last.key].count = 2

-----------------------------------------------------------------------------
(* C5 *)

\* C5: a request answered RATE_LIMITED raises the stored count of its
\* identity by exactly one and leaves resetTime unchanged.
C5_RejectionConsumesSlot ==
    [][ (ReachedLimiter /\ ErrorCodeOf(last'.response) = "RATE_LIMITED") =>
          LET key == last'.key
          IN  /\ key \in DOMAIN rateLimiterStore
              /\ rateLimiterStore'[key].count = rateLimiterStore[key].count + 1
              /\ rateLimiterStore'[key].resetTime = rateLimiterStore[key].resetTime
      ]_vars

\* Two requests in a row were rejected in one window: the count stands two
\* above the maximum.
C5_Witness ==
    /\ last.step = "serve" /\ last.key # null
    /\ ErrorCodeOf(last.response) = "RATE_LIMITED"
    /\ RATE_LIMIT_MAX_REQUESTS >= 1
    /\ rateLimiterStore[last.key].count = RATE_LIMIT_MAX_REQUESTS + 2

-----------------------------------------------------------------------------
(* C6 *)

\* C6 as stated: every request other than a pre-flight whose Authorization
\* header is absent or does not start with "Bearer " is answered 401
\* AUTH_REQUIRED, whatever its origin.
C6_NoBearerAlways401 ==
    (Served /\ NoBearer(last.req))
        => VerdictOf(last.response) = Verdict(401, "AUTH_REQUIRED")

\* C6 amended: every request other than a pre-flight whose Origin header is
\* absent or allowed and whose Authorization header is absent or does not
\* start with "Bearer " is answered 401 AUTH_REQUIRED.
C6_NoBearerFromAllowedOrigin401 ==
    (Served /\ ~OriginDisallowed(last.req) /\ NoBearer(last.req))
        => VerdictOf(last.response) = Verdict(401, "AUTH_REQUIRED")

\* A request with a present but malformed Authorization header, from an
\* allowed origin, was answered AUTH_REQUIRED while the store held entries.
C6_Witness ==
    /\ Served /\ Answered
    /\ last.req.Origin # null /\ ~OriginDisallowed(last.req)
    /\ last.req.Authorization = << "Basic", " ", "k" >>
    /\ VerdictOf(last.response) = Verdict(401, "AUTH_REQUIRED")
    /\ DOMAIN rateLimiterStore # {}

-----------------------------------------------------------------------------
(* C7 *)

InTrace(stage) == \E i \in 1..Len(last.trace) : last.trace[i] = stage

\* C7: a request with a "Bearer <token>" header passes the auth gate if and
\* only if no key is configured or everything after "Bearer " equals the
\* configured key; with a key configured and a different token the answer is
\* 401 INVALID_API_KEY.
C7_PassesIffTokenEqualsKey ==
    (Served /\ ~OriginDisallowed(last.req) /\ ~NoBearer(last.req))
        => /\ InTrace("rate")
                 <=> (~KeyConfigured \/ SuppliedToken(last.req) = REQUIRED_API_KEY)
           /\ (KeyConfigured /\ SuppliedToken(last.req) # REQUIRED_API_KEY)
                 => VerdictOf(last.response) = Verdict(401, "INVALID_API_KEY")

-----------------------------------------------------------------------------
(* C8 *)

HasAllowOrigin(resp) == "Access-Control-Allow-Origin" \in DOMAIN resp.headers

\* C8 as stated: a request other than a pre-flight from a present, disallowed
\* origin is not rejected by the origin stage: it goes on to the auth gate
\* and is answered by a later stage (401 AUTH_REQUIRED without a Bearer
\* header), only without the Access-Control-Allow-Origin header.
C8_DisallowedOriginGoesOn ==
    (Served /\ OriginDisallowed(last.req))
        => /\ InTrace("auth")
           /\ ErrorCodeOf(last.response) # "UNAUTHORIZED_ORIGIN"
           /\ NoBearer(last.req)
                 => VerdictOf(last.response) = Verdict(401, "AUTH_REQUIRED")
           /\ Answered => ~HasAllowOrigin(last.response)

\* C8 amended: a request other than a pre-flight from a present, disallowed
\* origin is rejected by the origin stage: it is answered 403
\* UNAUTHORIZED_ORIGIN before the auth gate or any later stage runs, and the
\* response omits the Access-Control-Allow-Origin header.
C8_DisallowedOriginRejected ==
    (Served /\ OriginDisallowed(last.req))
        => /\ VerdictOf(last.response) = Verdict(403, "UNAUTHORIZED_ORIGIN")
           /\ last.trace = << "origin" >>
           /\ ~HasAllowOrigin(last.response)

\* A request with a Bearer header from a disallowed origin was answered 403.
C8_Witness ==
    /\ Served /\ Answered
    /\ OriginDisallowed(last.req) /\ ~NoBearer(last.req)
    /\ VerdictOf(last.response) = Verdict(403, "UNAUTHORIZED_ORIGIN")

-----------------------------------------------------------------------------
(* C9 *)

\* The two shapes of the envelope.
WellShaped(body) ==
    /\ "success" \in DOMAIN body
    /\ IF body.success
       THEN "data" \in DOMAIN body /\ DOMAIN body \cap {"error", "errorCode"} = {}
       ELSE {"error", "errorCode"} \subseteq DOMAIN body /\ "data" \notin DOMAIN body

Preflight ==
    last.step \in {"serve", "legacy-serve"} /\ last.req.method = "OPTIONS"

\* C9: every response to a request other than a pre-flight carries an
\* envelope that is either success = true with data and neither error nor
\* errorCode, or success = false with error and errorCode and no data.
C9_EnvelopeHasOneShape ==
    (Answered /\ ~Preflight) => WellShaped(last.response.body)

-----------------------------------------------------------------------------
(* C10 *)

\* C10: for a request whose url went upstream the answer is 200 with
\* success = true iff the upstream returned a truthy status and a non-empty
\* media list, 404 NO_MEDIA_FOUND iff it returned a well-formed response
\* with a falsy status or a missing or empty media list, and 500
\* FETCH_FAILED iff the call failed at transport or response-parsing level
\* (the JSON value null is counted as a parsing failure here).
C10_ClassifiedByUpstreamOutcome ==
    (Answered /\ last.step \in {"fetch", "json"}) =>
        LET up == last.input
            failed == \/ up.fetch = "reject" \/ up.json = "reject"
                      \/ up.result.isNull
            hasMedia == /\ ~failed
                        /\ up.result.status
                        /\ up.result.hasData /\ up.result.hasMedias
                        /\ Len(up.result.medias) > 0
            is200 == /\ VerdictOf(last.response) = Verdict(200, "")
                     /\ "success" \in DOMAIN last.response.body
                     /\ last.response.body.success
        IN  /\ is200 <=> hasMedia
            /\ VerdictOf(last.response) = Verdict(404, "NO_MEDIA_FOUND")
                   <=> (~failed /\ ~hasMedia)
            /\ VerdictOf(last.response) = Verdict(500, "FETCH_FAILED") <=> failed

-----------------------------------------------------------------------------
(* C11 *)

\* The serve handler received a pre-flight.
PreflightArrives ==
    arrivals' = arrivals + 1 /\ last'.step = "serve" /\ last'.req.method = "OPTIONS"

\* An origin the configuration allows: a non-empty Origin value, with the
\* wildcard configured or the origin listed.
AllowedOrigin(origin) ==
    /\ origin # null /\ origin # << >>
    /\ \E i \in 1..Len(ALLOWED_ORIGINS) :
           ALLOWED_ORIGINS[i] = << "*" >> \/ ALLOWED_ORIGINS[i] = origin

WildcardConfigured ==
    \E i \in 1..Len(ALLOWED_ORIGINS) : ALLOWED_ORIGINS[i] = << "*" >>

\* The CORS headers computed for an origin: the two fixed headers, and the
\* allow-origin header for an allowed origin.
ComputedCors(origin) ==
    [h \in {"Access-Control-Allow-Methods", "Access-Control-Allow-Headers"}
            \cup (IF AllowedOrigin(origin)
                  THEN {"Access-Control-Allow-Origin"} ELSE {}) |->
        CASE h = "Access-Control-Allow-Methods" -> << "GET, POST, OPTIONS" >>
          [] h = "Access-Control-Allow-Headers" -> << "Content-Type, Authorization" >>
          [] OTHER -> IF WildcardConfigured THEN << "*" >> ELSE origin]

\* C11: a pre-flight is answered at once with an empty body and the CORS
\* headers computed for its origin, whatever its Authorization header, its
\* origin and the state of the limiter: it is not answered by the origin, auth
\* or rate stage, it does not go on to the body, and the limiter's store and
\* window records stay as they were.
C11_PreflightShortCircuits ==
    [][ PreflightArrives =>
          /\ last'.response.body = NoBody
          /\ last'.response.headers = ComputedCors(last'.req.Origin)
          /\ last'.response.status \in 200..299
          /\ \A i \in 1..Len(last'.trace) :
                 last'.trace[i] \notin {"origin", "auth", "rate"}
          /\ inflight' = inflight
          /\ rateLimiterStore' = rateLimiterStore
          /\ windowLog' = windowLog
      ]_vars

\* A pre-flight with a Bearer header from a disallowed origin, arriving when
\* the identity named by its token had used up its window, was answered with
\* an empty body.
C11_Witness ==
    /\ last.step = "serve" /\ last.req.method = "OPTIONS"
    /\ OriginDisallowed(last.req)
    /\ ~NoBearer(last.req)
    /\ OverLimit(RateLimitKey(last.req))
    /\ Answered /\ last.response.body = NoBody

-----------------------------------------------------------------------------
(* C12 *)

\* C12: the response to every pre-flight has status 204.
C12_PreflightStatus204 ==
    (last.step = "serve" /\ last.req.method = "OPTIONS")
        => last.response.status = 204

-----------------------------------------------------------------------------
(* C13 *)

\* C13: every response (pre-flight, error or success) carries the
\* Access-Control-Allow-Origin header if and only if the request carried an
\* Origin header (one with a non-empty value) and that origin is allowed by
\* the wildcard or by the allow-list.
C13_AllowOriginIffAllowed ==
    (Answered /\ last.step \in {"serve", "body", "fetch", "json"})
        => (HasAllowOrigin(last.response) <=> AllowedOrigin(last.origin))

\* A success response to a request from a listed origin, with no wildcard
\* configured, carries the header with that origin.
C13_Witness ==
    /\ last.step = "json" /\ last.response.status = 200
    /\ ~WildcardConfigured
    /\ AllowedOrigin(last.origin)
    /\ HasAllowOrigin(last.response)
    /\ last.response.headers["Access-Control-Allow-Origin"] = last.origin

\* A pre-flight with an empty Origin value, the wildcard configured, was
\* answered without the header.
C13_WitnessEmptyOrigin ==
    /\ last.step = "serve" /\ last.req.method = "OPTIONS"
    /\ last.origin = EmptyOrigin /\ WildcardConfigured
    /\ Answered /\ ~HasAllowOrigin(last.response)

-----------------------------------------------------------------------------
(* C14 *)

\* A url of the shape: one of `schemes', optional "www.", "instagram.com/",
\* one of p, reel, tv, "/", a non-empty identifier, then any suffix whose
\* atoms are all in `suffixAtoms'.
HasShape(url, schemes, suffixOk(_)) ==
    \E scheme \in schemes, www \in {<< >>, << "www." >>},
       seg \in {"p", "reel", "tv"} :
        LET head == scheme \o www \o << "instagram.com/", seg, "/" >>
        IN  /\ Len(url) > Len(head)
            /\ SubSeq(url, 1, Len(head)) = head
            /\ url[Len(head) + 1] \in IdAtoms
            /\ \A i \in (Len(head) + 2)..Len(url) : suffixOk(url[i])

AnyAtom(a) == TRUE
NoLineTerminator(a) == a # "\n"

\* The body step read a JSON object.
UrlStep == last.step = "body" /\ last.input.body.kind = "object"

\* The url passed validation: the request went on to the upstream call.
UrlAccepted == last.response.status = 0 /\ InTrace("upstream")

\* C14 as stated: a url value is accepted if and only if it has the shape
\* with an optional scheme and an arbitrary suffix; every other url value is
\* answered 400 INVALID_INSTAGRAM_URL.
C14_AcceptsIffShapeSchemeOptional ==
    (UrlStep /\ last.input.body.url # undefined) =>
        LET url == last.input.body.url
            shaped == HasShape(url, {<< >>, << "http://" >>, << "https://" >>}, AnyAtom)
        IN  /\ UrlAccepted <=> shaped
            /\ ~shaped => VerdictOf(last.response) = Verdict(400, "INVALID_INSTAGRAM_URL")

\* C14 amended: a non-empty url string is accepted if and only if it has the
\* shape with the scheme required and a suffix without line terminators;
\* every other non-empty url string is answered 400 INVALID_INSTAGRAM_URL.
C14_AcceptsIffShapeSchemeRequired ==
    (UrlStep /\ last.input.body.url \notin {undefined, << >>}) =>
        LET url == last.input.body.url
            shaped == HasShape(url, {<< "http://" >>, << "https://" >>}, NoLineTerminator)
        IN  /\ UrlAccepted <=> shaped
            /\ ~shaped => VerdictOf(last.response) = Verdict(400, "INVALID_INSTAGRAM_URL")

\* A url of the shape but for its missing scheme was answered 400
\* INVALID_INSTAGRAM_URL.
C14_Witness ==
    /\ UrlStep
    /\ last.input.body.url = << "www.", "instagram.com/", "reel", "/", "a_b-c", "/", "?x=1" >>
    /\ VerdictOf(last.response) = Verdict(400, "INVALID_INSTAGRAM_URL")

\* A url with scheme, without "www." and with a suffix was accepted.
C14_WitnessAccepted ==
    /\ UrlStep /\ UrlAccepted
    /\ last.input.body.url = << "http://", "instagram.com/", "tv", "/", "ABC123", "$" >>

-----------------------------------------------------------------------------
(* C15 *)

\* The upstream answered with a truthy status and a non-empty media list.
UpstreamSucceeded(up) ==
    /\ up.fetch = "ok" /\ up.json = "ok"
    /\ ~up.result.isNull
    /\ up.result.status /\ up.result.hasData /\ up.result.hasMedias
    /\ Len(up.result.medias) > 0

\* The upstream field, or the default where the field is absent.
OrDefault(field, default) == IF field = undefined THEN default ELSE field

\* C15: on a successful upstream response the answer carries downloadOptions
\* that correspond one-to-one and in order to the upstream medias, each with
\* the upstream url, the upstream quality and formattedSize, and the defaults
\* "default", "unknown" and "post" only where the upstream field is absent;
\* an absent or malformed field degrades to a default and never makes the
\* normalizer throw.
C15_NormalizesOneToOne ==
    (last.step = "json" /\ UpstreamSucceeded(last.input)) =>
        LET medias == last.input.result.medias
            body == last.response.body
        IN  /\ last.response.status = 200
            /\ body.success
            /\ body.data.type = OrDefault(last.input.result.type, << "post" >>)
            /\ Len(body.data.downloadOptions) = Len(medias)
            /\ \A i \in 1..Len(medias) :
                   /\ body.data.downloadOptions[i].url = medias[i].url
                   /\ body.data.downloadOptions[i].quality
                          = OrDefault(medias[i].quality, << "default" >>)
                   /\ body.data.downloadOptions[i].size
                          = OrDefault(medias[i].formattedSize, << "unknown" >>)

-----------------------------------------------------------------------------
(* C16 *)

InFlightIds(set) == {r.id : r \in set}

\* C16: every request gets exactly one response and no failure escapes.  A
\* request that arrives is answered at once or suspended; a suspended request
\* is eventually answered; it leaves the handler only by being answered; and
\* every answer is given to a request that was suspended or has just arrived
\* and ends it, so no request is answered twice.
C16_ExactlyOneResponse ==
    /\ \A id \in 1..MaxLiveRequests :
           (id \in InFlightIds(inflight)) ~> (last.id = id /\ Answered)
    /\ [][ /\ arrivals' = arrivals + 1
                 => /\ last'.id = arrivals'
                    /\ (last'.response.status # 0) # (arrivals' \in InFlightIds(inflight'))
            /\ \A id \in InFlightIds(inflight) \ InFlightIds(inflight') :
                   last'.id = id /\ last'.response.status # 0
            /\ (last' # last /\ last'.response.status # 0)
                 => /\ last'.id \notin InFlightIds(inflight')
                    /\ last'.id \in InFlightIds(inflight) \cup {arrivals + 1}
                    /\ last'.id = arrivals + 1 => arrivals' = arrivals + 1
                    /\ WellShaped(last'.response.body) \/ last'.response.body = NoBody
            /\ InFlightIds(inflight') \subseteq 1..arrivals'
      ]_vars

\* Two requests were suspended together; the one whose upstream call was
\* rejected has been answered 500 FETCH_FAILED and the other is still waiting.
C16_Witness ==
    /\ last.step = "fetch" /\ Answered
    /\ VerdictOf(last.response) = Verdict(500, "FETCH_FAILED")
    /\ Cardinality(inflight) = 1
    /\ last.id \notin InFlightIds(inflight)

-----------------------------------------------------------------------------
(* C17 *)

\* At most MAX_RECENT_DOWNLOADS entries, with pairwise distinct urls.
RecentWellFormed(list) ==
    /\ Len(list) <= MAX_RECENT_DOWNLOADS
    /\ \A i, j \in 1..Len(list) : i # j => list[i].url # list[j].url

InRecent(list, url) == \E i \in 1..Len(list) : list[i].url = url

\* C17: the recent-downloads list always has at most 5 entries with pairwise
\* distinct urls; a successful download of a media whose url is not in the
\* list puts it at the front, keeps the others in their order and drops what
\* lies beyond the fifth place; any other downloadMedia call (a url already
\* in the list, no such option, a failed download) leaves the list unchanged.
C17_RecentDownloadsBounded ==
    /\ [] RecentWellFormed(recentDownloads)
    /\ [][ call'.op = "downloadMedia" =>
             IF call'.outcome = "downloaded"
                   /\ ~InRecent(recentDownloads, call'.media.url)
             THEN /\ recentDownloads'[1] = call'.media
                  /\ Len(recentDownloads')
                        = IF Len(recentDownloads) < MAX_RECENT_DOWNLOADS
                          THEN Len(recentDownloads) + 1 ELSE MAX_RECENT_DOWNLOADS
                  /\ \A i \in 2..Len(recentDownloads') :
                         recentDownloads'[i] = recentDownloads[i - 1]
             ELSE recentDownloads' = recentDownloads
        ]_vars

\* A sixth url was downloaded into a full list: it stands first and the
\* oldest entry is gone.
C17_Witness ==
    /\ call.op = "downloadMedia" /\ call.outcome = "downloaded"
    /\ call.media = MediaOf(6)
    /\ recentDownloads
           = << MediaOf(6), MediaOf(1), MediaOf(2), MediaOf(3), MediaOf(4) >>

\* A media with the url of a listed one was downloaded and the list kept the
\* entry it had.
C17_WitnessAlreadyListed ==
    /\ call.op = "downloadMedia" /\ call.outcome = "downloaded"
    /\ call.media = Refetched
    /\ InRecent(recentDownloads, Refetched.url)
    /\ \A i \in 1..Len(recentDownloads) : recentDownloads[i] # Refetched

-----------------------------------------------------------------------------
(* C18 *)

\* C18: fetchMedia called with an empty or whitespace-only url issues no
\* service call and changes only error and errorCode (to EMPTY_URL_INPUT):
\* media and isLoading keep the values they had when it was called.
C18_BlankUrlKeepsMediaAndLoading ==
    [][ (call'.op = "fetchMedia" /\ call'.outcome = "blank") =>
          /\ pending' = pending
          /\ state'.errorCode = << "EMPTY_URL_INPUT" >>
          /\ state'.error # null
          /\ state'.media = state.media
          /\ state'.isLoading = state.isLoading
          /\ recentDownloads' = recentDownloads
      ]_vars

-----------------------------------------------------------------------------
(* C19 *)

\* The first word after "Bearer " (empty when a second space follows).
FirstWord(req) ==
    IF Len(req.Authorization) >= 3 /\ req.Authorization[3] # " "
    THEN << req.Authorization[3] >> ELSE << >>

\* The client address: the first forwarding header present, else the
\* sentinel.
AddressOf(req) ==
    IF req.XForwardedFor \notin {null, << >>} THEN req.XForwardedFor
    ELSE IF req.XRealIP \notin {null, << >>} THEN req.XRealIP
    ELSE IF req.CFConnectingIP \notin {null, << >>} THEN req.CFConnectingIP
    ELSE << "unknown-ip" >>

\* The identity of every request that passed auth is its token when that is
\* not empty and its client address otherwise; with a key configured all
\* entries of the store are the key's.
IdentityIsToken ==
    /\ (Served /\ last.key # null)
          => last.key = IF FirstWord(last.req) # << >>
                        THEN FirstWord(last.req) ELSE AddressOf(last.req)
    /\ KeyConfigured => DOMAIN rateLimiterStore \subseteq {REQUIRED_API_KEY}

\* C19 as stated: the identity is the token, never the address, unless the
\* token is empty; with a key configured all requests share one entry, and
\* the number admitted in one window is at most RATE_LIMIT_MAX_REQUESTS in
\* total, whatever the forwarding headers.
C19_SharedEntryWithinMax ==
    /\ IdentityIsToken
    /\ \A key \in DOMAIN windowLog :
           Cardinality(Admitted(windowLog[key])) <= RATE_LIMIT_MAX_REQUESTS

\* C19 amended: as stated, with the number admitted in one window at most
\* RATE_LIMIT_MAX_REQUESTS, or 1 when that maximum is below 1.
C19_SharedEntryWithinMaxOrOne ==
    /\ IdentityIsToken
    /\ \A key \in DOMAIN windowLog :
           Cardinality(Admitted(windowLog[key])) <= Max(RATE_LIMIT_MAX_REQUESTS, 1)

\* With the key configured and a maximum of 1, a request with the key sent
\* from a second address found the key's window used up and was answered 429,
\* and the store holds the key's entry alone.
C19_Witness ==
    /\ KeyConfigured /\ RATE_LIMIT_MAX_REQUESTS = 1
    /\ Served /\ last.key = REQUIRED_API_KEY
    /\ last.req.XForwardedFor = << "10.0.0.2" >>
    /\ VerdictOf(last.response) = Verdict(429, "RATE_LIMITED")
    /\ DOMAIN rateLimiterStore = {REQUIRED_API_KEY}
    /\ Len(windowLog[last.key]) = 2

\* Without a key, a request with an empty token was counted under its client
\* address.
C19_WitnessAddress ==
    /\ ~KeyConfigured
    /\ Served /\ last.key = << "10.0.0.3" >>
    /\ FirstWord(last.req) = << >>

-----------------------------------------------------------------------------
(* C20 *)

\* The request was terminated before the rate limiter: a pre-flight, or one
\* answered by the origin stage or the auth gate.
EndedBeforeLimiter(req, resp) ==
    \/ req.method = "OPTIONS"
    \/ ErrorCodeOf(resp) \in {"UNAUTHORIZED_ORIGIN", "AUTH_REQUIRED", "INVALID_API_KEY"}

\* The identity of a request: its token, or its client address when the
\* token is empty.
IdentityOf(req) ==
    IF FirstWord(req) # << >> THEN FirstWord(req) ELSE AddressOf(req)

\* C20: a request terminated before the rate limiter leaves the store
\* unchanged; a request that reaches the limiter changes at most the entry of
\* its own identity, every other entry stays as it was; the later steps of a
\* request do not touch the store.
C20_OnlyOwnEntryChanges ==
    [][ IF arrivals' = arrivals + 1 /\ last'.step = "serve"
        THEN IF EndedBeforeLimiter(last'.req, last'.response)
             THEN rateLimiterStore' = rateLimiterStore
             ELSE /\ DOMAIN rateLimiterStore'
                        = DOMAIN rateLimiterStore \cup {IdentityOf(last'.req)}
                  /\ \A k \in DOMAIN rateLimiterStore :
                         k # IdentityOf(last'.req)
                             => rateLimiterStore'[k] = rateLimiterStore[k]
        ELSE rateLimiterStore' = rateLimiterStore
      ]_vars

\* A request reached the limiter under its own identity while the store held
\* the used-up entry of another identity.
C20_Witness ==
    /\ Served /\ last.key # null
    /\ \E k \in DOMAIN rateLimiterStore :
           k # last.key /\ rateLimiterStore[k].count >= RATE_LIMIT_MAX_REQUESTS
    /\ rateLimiterStore[last.key].count = 1

\* A request with a wrong key was answered 401 while the store held an entry.
C20_WitnessUnauthenticated ==
    /\ Served /\ ErrorCodeOf(last.response) = "INVALID_API_KEY"
    /\ DOMAIN rateLimiterStore # {}

====
